---- MODULE Spec2Model ----
(***************************************************************************)
(* A model of ollama/_client.py: the transport wrapper (_request), the     *)
(* stream decoder (_stream), the request dispatcher (_request_stream),     *)
(* generate / chat validation, and create with the Modelfile parser        *)
(* (_parse_modelfile) and the blob uploader (_create_blob).                *)
(*                                                                         *)
(* Four specifications share the module:                                   *)
(*   SpecStream  one dispatched call, buffered or streamed, and the        *)
(*               consumer driving the lazy sequence;                       *)
(*   SpecCreate  one create call on the blocking client: Modelfile         *)
(*               parsing, blob probe and upload, against a server holding  *)
(*               a set of blobs;                                           *)
(*   SpecAsync   the same steps for concurrent create calls on the         *)
(*               non-blocking client, interleaved at their awaits;         *)
(*   SpecChat    generate / chat calls on a caller-owned message list.     *)
(* The blocking and the non-blocking client run the same code but for the  *)
(* awaits, so each operation is modelled once.                             *)
(***************************************************************************)
EXTENDS Integers, Sequences, FiniteSets, TLC

VARIABLES
  \* ---- SpecStream: one call through _request_stream
  gen,        \* the generator object of _stream: "none", "created", "suspended", "done"
  conn,       \* the streamed connection: "none", "open", "released"
  resp,       \* the server's response to the call (NoResp before it is received)
  nread,      \* number of lines taken from r.iter_lines()
  yielded,    \* the messages yielded to the consumer, in order
  raised,     \* the exception the call / the sequence ended with (NoExc if none)
  returned,   \* the value a buffered call returned (None if none)
  \* ---- SpecCreate / SpecAsync: create calls, one per caller
  client,     \* "Client" (blocking) or "AsyncClient" (cooperative tasks)
  blobs,      \* the digests the server holds
  net,        \* the requests issued, in order: [task, method, target, status]
  pc,         \* per caller: where its create call stands
  call,       \* per caller: the arguments of its create call
  rest,       \* per caller: the lines of the Modelfile not yet processed
  out,        \* per caller: the text written to `out` so far
  blob,       \* per caller: the _create_blob call in progress or last made
  exc,        \* per caller: the exception its create call raised
  \* ---- SpecChat: generate / chat calls of one caller
  messages,   \* the caller's message list, passed to every chat call
  sent,       \* the last request sent (NoReq before the first)
  nsent,      \* number of requests sent
  lazy,       \* the generators streamed calls returned, not yet started
  ncalls,     \* number of generate / chat calls made
  last,       \* the arguments of the last call
  chatExc     \* the exception the last call raised (NoExc if it returned)

streamVars == <<gen, conn, resp, nread, yielded, raised, returned>>

createVars == <<client, blobs, net, pc, call, rest, out, blob, exc>>

chatVars == <<messages, sent, nsent, lazy, ncalls, last, chatExc>>

vars == <<streamVars, createVars, chatVars>>

(***************************************************************************)
(* Bounds                                                                  *)
(***************************************************************************)
\* longest streamed response body, in lines
MaxBody == 3

\* most lines in a Modelfile passed to the blocking client
MaxLines == 2

\* concurrent create calls on the non-blocking client
NTasks == 2

\* longest message list a caller holds
MaxMsgs == 2

\* generate / chat calls a caller makes
MaxCalls == 2

(***************************************************************************)
(* Python values                                                           *)
(***************************************************************************)
None == "<None>"

\* dict.get(key): the value, or None when the key is absent
Get(d, key) == IF key \in DOMAIN d THEN d[key] ELSE None

\* truthiness of a str-or-None value: None and '' are falsy
Truthy(v) == v # None /\ v # ""

NoExc == [type |-> "none", msg |-> "", status |-> 0]

Exc(type, msg) == [type |-> type, msg |-> msg, status |-> 0]

\* httpx.HTTPStatusError: carries the response, hence its status code
HTTPStatusError(status) == [type |-> "HTTPStatusError", msg |-> "", status |-> status]

(***************************************************************************)
(* The wire: response lines and their decoding                             *)
(***************************************************************************)
\* Lines a server (or a proxy in front of it) can put on a streamed body.
LineTokA     == "{\"response\":\"a\"}"
LineTokB     == "{\"response\":\"b\"}"
LineErrEmpty == "{\"response\":\"c\",\"error\":\"\"}"
LineErrX     == "{\"error\":\"x\"}"
LineErrY     == "{\"error\":\"y\",\"response\":\"d\"}"
LineNotJson  == "<html>"
LineJsonList == "[1]"

Lines == {LineTokA, LineTokB, LineErrEmpty, LineErrX, LineErrY, LineNotJson, LineJsonList}

\* json.loads(line): kind "dict" with the mapping, kind "list" for a JSON value
\* that is no object, kind "invalid" when the text is no JSON (JSONDecodeError).
json_loads(line) ==
  CASE line = LineTokA     -> [kind |-> "dict", v |-> [response |-> "a"]]
    [] line = LineTokB     -> [kind |-> "dict", v |-> [response |-> "b"]]
    [] line = LineErrEmpty -> [kind |-> "dict", v |-> [response |-> "c", error |-> ""]]
    [] line = LineErrX     -> [kind |-> "dict", v |-> [error |-> "x"]]
    [] line = LineErrY     -> [kind |-> "dict", v |-> [error |-> "y", response |-> "d"]]
    [] line = LineJsonList -> [kind |-> "list", v |-> [len |-> "1"]]
    [] OTHER               -> [kind |-> "invalid", v |-> [len |-> "0"]]

Statuses == {200, 201, 404, 500}

Is2xx(status) == status >= 200 /\ status < 300

Bodies == UNION {[1..n -> Lines] : n \in 0..MaxBody}

NoResp == [status |-> 0, body |-> <<>>]

Responses == [status : Statuses, body : Bodies]

(***************************************************************************)
(* _request: one buffered request; raise_for_status raises on non-2xx      *)
(***************************************************************************)
\* response.raise_for_status(): the exception raised, NoExc on a 2xx status
raise_for_status(status) ==
  IF Is2xx(status) THEN NoExc ELSE HTTPStatusError(status)

\* response.json() of a buffered body: the body's text is its first line
response_json(r) ==
  IF Len(r.body) = 0 THEN [kind |-> "invalid", v |-> [len |-> "0"]]
  ELSE json_loads(r.body[1])

(***************************************************************************)
(* _stream: the lazy sequence                                              *)
(***************************************************************************)
\* `if e := partial.get('error')`: the embedded error, None when falsy
ErrorOfMutant(partial) ==
  IF "error" \in DOMAIN partial THEN partial["error"] ELSE None

ErrorOf(partial) ==
  LET e == Get(partial, "error") IN IF Truthy(e) THEN e ELSE None

\* __exit__ of `with self._client.stream(...) as r`: runs on every way out of
\* the block (end of the loop, an exception, GeneratorExit at the yield)
WithExitMutant(how) == IF how = "StopIteration" THEN "released" ELSE "open"

WithExit(how) == "released"

\* One pass of the loop body of _stream from line n of response r: what the
\* generator does until it next yields or ends.
StreamStep(r, n) ==
  IF n = Len(r.body)
  THEN [gen |-> "done", conn |-> WithExit("StopIteration"), nread |-> n,
        out |-> <<>>, raised |-> Exc("StopIteration", "")]
  ELSE
    LET partial == json_loads(r.body[n + 1]) IN
    IF partial.kind = "invalid"
    THEN [gen |-> "done", conn |-> WithExit("JSONDecodeError"), nread |-> n + 1,
          out |-> <<>>, raised |-> Exc("JSONDecodeError", "")]
    ELSE IF partial.kind # "dict"
    THEN [gen |-> "done", conn |-> WithExit("AttributeError"), nread |-> n + 1,
          out |-> <<>>, raised |-> Exc("AttributeError", "")]
    ELSE IF ErrorOf(partial.v) # None
    THEN [gen |-> "done", conn |-> WithExit("Exception"), nread |-> n + 1,
          out |-> <<>>, raised |-> Exc("Exception", ErrorOf(partial.v))]
    ELSE [gen |-> "suspended", conn |-> "open", nread |-> n + 1,
          out |-> <<partial.v>>, raised |-> NoExc]

\* _request_stream(..., stream): stream=True returns the generator of _stream
\* without running any of it; stream=False performs _request and returns
\* response.json().
_request_stream(stream) ==
  /\ gen = "none" /\ resp = NoResp
  /\ IF stream
     THEN /\ gen' = "created"
          /\ UNCHANGED <<conn, resp, nread, yielded, raised, returned>>
     ELSE \E r \in Responses :
          /\ resp' = r
          /\ IF raise_for_status(r.status) # NoExc
             THEN /\ raised' = raise_for_status(r.status)
                  /\ returned' = None
             ELSE IF response_json(r).kind = "invalid"
             THEN /\ raised' = Exc("JSONDecodeError", "")
                  /\ returned' = None
             ELSE /\ raised' = NoExc
                  /\ returned' = r.body[1]
          /\ UNCHANGED <<gen, conn, nread, yielded>>
  /\ UNCHANGED <<createVars, chatVars>>

\* The consumer asks for the next message: next(gen) / `for part in gen`.
\* The first call enters the with block (the request is sent, the response
\* head received); a call on a finished generator raises StopIteration.
StreamNext ==
  /\ gen \in {"created", "suspended"}
  /\ \E r \in (IF gen = "created" THEN Responses ELSE {resp}) :
       LET s == StreamStep(r, nread) IN
       /\ resp' = r
       /\ gen' = s.gen
       /\ conn' = s.conn
       /\ nread' = s.nread
       /\ yielded' = yielded \o s.out
       /\ raised' = s.raised
  /\ UNCHANGED returned
  /\ UNCHANGED <<createVars, chatVars>>

\* next() on a generator that has ended: StopIteration goes to the consumer,
\* no code of _stream runs and nothing of the sequence changes (raised keeps
\* the exception the sequence ended with)
StreamNextAfterEnd ==
  /\ gen = "done"
  /\ UNCHANGED <<gen, conn, resp, nread, yielded, raised, returned>>
  /\ UNCHANGED <<createVars, chatVars>>

\* The consumer closes the sequence: gen.close(). A generator that never ran
\* just ends; one suspended at the yield gets GeneratorExit there, which
\* leaves the with block.
StreamClose ==
  /\ gen \in {"created", "suspended"}
  /\ gen' = "done"
  /\ conn' = IF gen = "suspended" THEN WithExit("GeneratorExit") ELSE conn
  /\ raised' = Exc("GeneratorExit", "")
  /\ UNCHANGED <<resp, nread, yielded, returned>>
  /\ UNCHANGED <<createVars, chatVars>>

StreamIdle ==
  /\ gen = "none"
  /\ conn = "none"
  /\ resp = NoResp
  /\ nread = 0
  /\ yielded = <<>>
  /\ raised = NoExc
  /\ returned = None

(***************************************************************************)
(* Modelfile text.  A text is a sequence of tokens: a word (a run of       *)
(* characters other than space and newline), one space " ", or one         *)
(* newline "\n".  str.partition, the line iterator of io.StringIO and      *)
(* print act on the characters between words, so they are computed here    *)
(* on the tokens.                                                          *)
(***************************************************************************)
SP == " "

NL == "\n"

\* index of the first occurrence of token tok in s, 0 if there is none
IndexOf(s, tok) ==
  LET hits == {i \in 1..Len(s) : s[i] = tok}
  IN IF hits = {} THEN 0 ELSE CHOOSE i \in hits : \A j \in hits : i <= j

\* `for line in io.StringIO(modelfile)`: the lines, each keeping its "\n"
RECURSIVE SplitLines(_)
SplitLines(text) ==
  IF text = <<>> THEN <<>>
  ELSE LET i == IndexOf(text, NL) IN
       IF i = 0 THEN <<text>>
       ELSE <<SubSeq(text, 1, i)>> \o SplitLines(SubSeq(text, i + 1, Len(text)))

\* `command, _, args = line.partition(' ')`
partition(line) ==
  LET i == IndexOf(line, SP) IN
  IF i = 0 THEN [command |-> line, args |-> <<>>]
  ELSE [command |-> SubSeq(line, 1, i - 1), args |-> SubSeq(line, i + 1, Len(line))]

\* str.upper() on a word
Upper(w) ==
  CASE w = "from"    -> "FROM"
    [] w = "adapter" -> "ADAPTER"
    [] w = "hi"      -> "HI"
    [] w = "you"     -> "YOU"
    [] w = "a.bin"   -> "A.BIN"
    [] w = "b.bin"   -> "B.BIN"
    [] w = "c.bin"   -> "C.BIN"
    [] w = "llama2"  -> "LLAMA2"
    [] OTHER         -> w

\* `command.upper() in ['FROM', 'ADAPTER']`
IsDirective(command) ==
  [i \in 1..Len(command) |-> Upper(command[i])] \in {<<"FROM">>, <<"ADAPTER">>}

\* `print(command, args, file=out)`: the two joined by a space, then "\n"
PrintLine(command, args) == command \o <<SP>> \o args \o <<NL>>

(***************************************************************************)
(* The file system next to the Modelfile.  A path is the text given to     *)
(* Path(): Path keeps every character of a name, a trailing newline        *)
(* included, and Path('') is the directory itself.                         *)
(***************************************************************************)
\* regular files and their contents; a.bin and b.bin hold the same bytes,
\* and the third file's name ends in a newline
FileContent(path) ==
  CASE path = <<"a.bin">>     -> "bytes1"
    [] path = <<"b.bin">>     -> "bytes1"
    [] path = <<"c.bin", NL>> -> "bytes2"
    [] OTHER                  -> None

IsFile(path) == FileContent(path) # None

\* `base / Path('')` is base, a directory
IsDir(path) == path = <<>>

\* `path.exists()`
PathExists(path) == IsFile(path) \/ IsDir(path)

\* hexdigest of the SHA-256 of a content
sha256(content) == IF content = "bytes1" THEN "h1" ELSE "h2"

\* `digest = f'sha256:{sha256sum.hexdigest()}'`
DigestOf(path) == "sha256:" \o sha256(FileContent(path))

Digests == {"sha256:h1", "sha256:h2"}

(***************************************************************************)
(* The inputs of create                                                    *)
(***************************************************************************)
LineTemplates ==
  { <<"FROM", SP, "a.bin">>,
    <<"from", SP, "llama2">>,
    <<"ADAPTER", SP, "b.bin">>,
    <<"FROM", SP, "c.bin">>,
    <<"SYSTEM", SP, "hi", SP, "you">>,
    <<"LICENSE">>,
    <<"ADAPTER", SP>>,
    <<>> }

RECURSIVE JoinLines(_)
JoinLines(ls) ==
  IF Len(ls) = 1 THEN ls[1]
  ELSE ls[1] \o <<NL>> \o JoinLines(Tail(ls))

\* the texts of 1..n lines, each with and without a final newline, and ''
TextsUpTo(n) ==
  LET joined == {JoinLines(ls) : ls \in UNION {[1..k -> LineTemplates] : k \in 1..n}}
  IN joined \cup {t \o <<NL>> : t \in joined} \cup {<<>>}

Tasks == 1..NTasks

\* who calls: the blocking client serves one caller at a time
Callers == IF client = "Client" THEN {1} ELSE Tasks

\* the Modelfiles passed: up to MaxLines lines on the blocking client; on the
\* non-blocking client, where calls interleave, one line and no final newline
Texts ==
  IF client = "Client" THEN TextsUpTo(MaxLines)
  ELSE {t \in TextsUpTo(1) : t = <<>> \/ t[Len(t)] # NL}

NoCall == [viaPath |-> FALSE, modelfile |-> <<>>, stream |-> FALSE]

NoBlob == [line |-> 0, command |-> <<>>, digest |-> "", probe |-> 0]

(***************************************************************************)
(* The server, as _create_blob sees it                                     *)
(***************************************************************************)
\* no response at all (connection refused, reset): httpx raises a transport
\* error out of request(), written here as status -1
ProbeAnswers(digest) ==
  {IF digest \in blobs THEN 200 ELSE 404, 500, -1}

UploadAnswers == {201, 500, -1}

\* _request: the exception it raises for an answer, NoExc if it returns
request_raises_mutant(status) ==
  IF status = -1 THEN Exc("ConnectError", "") ELSE NoExc

request_raises(status) ==
  IF status = -1 THEN Exc("ConnectError", "") ELSE raise_for_status(status)

\* `if e.response.status_code != 404: raise`: the probe failure that means
\* "absent" and leads to the upload
ProbeSaysAbsentMutant(e) == e.type = "HTTPStatusError"

ProbeSaysAbsent(e) == e.type = "HTTPStatusError" /\ e.status = 404

\* a request as the log keeps it: the Modelfile line it is made for (0 for
\* /api/create), and its status, 0 while it is in flight
Req(t, method, target, line) ==
  [task |-> t, method |-> method, target |-> target, line |-> line, status |-> 0]

\* the answer to caller t's request in flight (its last one) is recorded
Answered(t, status) ==
  LET mine == {i \in 1..Len(net) : net[i].task = t}
      newest == CHOOSE i \in mine : \A j \in mine : j <= i
  IN [net EXCEPT ![newest].status = status]

(***************************************************************************)
(* create, _parse_modelfile, _create_blob                                  *)
(***************************************************************************)
\* create(model, path, modelfile, stream) up to the first line of the loop of
\* _parse_modelfile: with a path that exists the text is the file's, else the
\* modelfile argument must be non-empty
create(t, viaPath, text, stream) ==
  /\ t \in Callers /\ pc[t] = "idle"
  /\ call' = [call EXCEPT ![t] = [viaPath |-> viaPath, modelfile |-> text, stream |-> stream]]
  /\ IF ~viaPath /\ text = <<>>
     THEN /\ pc' = [pc EXCEPT ![t] = "failed"]
          /\ exc' = [exc EXCEPT ![t] = Exc("Exception", "must provide either path or modelfile")]
          /\ UNCHANGED rest
     ELSE /\ pc' = [pc EXCEPT ![t] = "parse"]
          /\ rest' = [rest EXCEPT ![t] = SplitLines(text)]
          /\ UNCHANGED exc
  /\ UNCHANGED <<client, blobs, net, out, blob>>
  /\ UNCHANGED <<streamVars, chatVars>>

\* the line of `print(command, args, file=out)` and the move to the next line
Printed(t, command, args) ==
  /\ out' = [out EXCEPT ![t] = @ \o PrintLine(command, args)]
  /\ rest' = [rest EXCEPT ![t] = Tail(@)]
  /\ pc' = [pc EXCEPT ![t] = "parse"]

\* the exception leaves _create_blob, _parse_modelfile and create
Raised(t, e) ==
  /\ pc' = [pc EXCEPT ![t] = "failed"]
  /\ exc' = [exc EXCEPT ![t] = e]
  /\ UNCHANGED <<out, rest>>

\* One pass of the loop of _parse_modelfile. For a directive whose path
\* exists, _create_blob starts: it hashes the file and sends the probe.
_parse_modelfile(t) ==
  /\ pc[t] = "parse" /\ rest[t] # <<>>
  /\ LET line == Head(rest[t])
         p == partition(line)
         path == p.args
     IN IF IsDirective(p.command) /\ PathExists(path)
        THEN IF IsDir(path)
             THEN /\ Raised(t, Exc("IsADirectoryError", ""))
                  /\ UNCHANGED <<net, blob>>
             ELSE /\ blob' = [blob EXCEPT ![t] =
                        [line |-> Len(SplitLines(call[t].modelfile)) - Len(rest[t]) + 1,
                         command |-> p.command, digest |-> DigestOf(path), probe |-> 0]]
                  /\ net' = Append(net, Req(t, "HEAD", DigestOf(path),
                                         Len(SplitLines(call[t].modelfile)) - Len(rest[t]) + 1))
                  /\ pc' = [pc EXCEPT ![t] = "head"]
                  /\ UNCHANGED <<out, rest, exc>>
        ELSE /\ Printed(t, p.command, p.args)
             /\ UNCHANGED <<net, blob, exc>>
  /\ UNCHANGED <<client, blobs, call>>
  /\ UNCHANGED <<streamVars, chatVars>>

\* _create_blob after the probe's answer: found, the digest is returned;
\* status 404, the file is uploaded; any other failure is raised again.
create_blob_probed(t) ==
  /\ pc[t] = "head"
  /\ \E status \in ProbeAnswers(blob[t].digest) :
       LET e == request_raises(status) IN
       /\ blob' = [blob EXCEPT ![t].probe = status]
       /\ IF e = NoExc
          THEN /\ net' = Answered(t, status)
               /\ Printed(t, blob[t].command, <<"@" \o blob[t].digest>>)
               /\ UNCHANGED exc
          ELSE IF ProbeSaysAbsent(e)
          THEN /\ net' = Append(Answered(t, status), Req(t, "PUT", blob[t].digest, blob[t].line))
               /\ pc' = [pc EXCEPT ![t] = "put"]
               /\ UNCHANGED <<out, rest, exc>>
          ELSE /\ net' = Answered(t, status)
               /\ Raised(t, e)
  /\ UNCHANGED <<client, blobs, call>>
  /\ UNCHANGED <<streamVars, chatVars>>

\* _create_blob after the upload's answer; the server holds the blob once
\* it has answered the upload with success
create_blob_uploaded(t) ==
  /\ pc[t] = "put"
  /\ \E status \in UploadAnswers :
       LET e == request_raises(status) IN
       /\ net' = Answered(t, status)
       /\ IF e = NoExc
          THEN /\ blobs' = blobs \cup {blob[t].digest}
               /\ Printed(t, blob[t].command, <<"@" \o blob[t].digest>>)
               /\ UNCHANGED exc
          ELSE /\ Raised(t, e)
               /\ UNCHANGED blobs
  /\ UNCHANGED <<client, call, blob>>
  /\ UNCHANGED <<streamVars, chatVars>>

\* create after _parse_modelfile has returned: _request_stream. A buffered
\* call sends the request; a streamed call returns the generator, which
\* has not sent anything yet.
create_dispatch(t) ==
  /\ pc[t] = "parse" /\ rest[t] = <<>>
  /\ IF call[t].stream
     THEN /\ pc' = [pc EXCEPT ![t] = "lazy"]
          /\ UNCHANGED net
     ELSE /\ pc' = [pc EXCEPT ![t] = "post"]
          /\ net' = Append(net, Req(t, "POST", "/api/create", 0))
  /\ UNCHANGED <<client, blobs, call, rest, out, blob, exc>>
  /\ UNCHANGED <<streamVars, chatVars>>

\* the caller starts iterating the generator a streamed create returned
create_iterate(t) ==
  /\ pc[t] = "lazy"
  /\ pc' = [pc EXCEPT ![t] = "post"]
  /\ net' = Append(net, Req(t, "POST", "/api/create", 0))
  /\ UNCHANGED <<client, blobs, call, rest, out, blob, exc>>
  /\ UNCHANGED <<streamVars, chatVars>>

\* the answer to /api/create; a buffered call raises on a failure
create_answered(t) ==
  /\ pc[t] = "post"
  /\ \E status \in {200, 500, -1} :
       LET e == request_raises(status) IN
       /\ net' = Answered(t, status)
       /\ IF e # NoExc /\ (~call[t].stream \/ status = -1)
          THEN /\ pc' = [pc EXCEPT ![t] = "failed"]
               /\ exc' = [exc EXCEPT ![t] = e]
          ELSE /\ pc' = [pc EXCEPT ![t] = "done"]
               /\ UNCHANGED exc
  /\ UNCHANGED <<client, blobs, call, rest, out, blob>>
  /\ UNCHANGED <<streamVars, chatVars>>

(***************************************************************************)
(* generate and chat.  A message is a dict: role and content are a str or  *)
(* absent (None, what .get returns), images a list, <<>> when absent or    *)
(* empty (falsy either way); isdict is FALSE for a list element that is no *)
(* dict.  An image is bytes, a str (a path), or something else.            *)
(***************************************************************************)
Bytes(v) == [type |-> "bytes", v |-> v]

Str(v) == [type |-> "str", v |-> v]

Other(v) == [type |-> "int", v |-> v]

\* Path(p).read_bytes(): the bytes of the file, None if there is no such file
read_bytes(p) == IF p = "cat.png" THEN "B1" ELSE None

\* b64encode(...).decode('utf-8')
b64encode(bytes) == IF bytes = "B1" THEN "QjE=" ELSE "QjI="

\* _encode_image(image): the value it returns (a str), or the exception
_encode_image(image) ==
  IF image.type = "str"
  THEN IF read_bytes(image.v) # None
       THEN [exc |-> NoExc, v |-> Str(b64encode(read_bytes(image.v)))]
       ELSE [exc |-> Exc("FileNotFoundError", image.v), v |-> image]
  ELSE IF image.type = "bytes"
  THEN [exc |-> NoExc, v |-> Str(b64encode(image.v))]
  ELSE [exc |-> Exc("Exception", "images must be a list of bytes, path-like objects, or file-like objects"),
        v |-> image]

\* `[_encode_image(image) for image in images]`: the new list, or the first
\* exception
EncodeAll(images) ==
  LET r == [i \in 1..Len(images) |-> _encode_image(images[i])]
      bad == {i \in 1..Len(images) : r[i].exc # NoExc}
  IN IF bad = {}
     THEN [exc |-> NoExc, v |-> [i \in 1..Len(images) |-> r[i].v]]
     ELSE [exc |-> r[CHOOSE i \in bad : \A j \in bad : i <= j].exc, v |-> images]

\* `role not in ['system', 'user', 'assistant']` after `not role`
RoleOkMutant(role) == Truthy(role)

RoleOk(role) == Truthy(role) /\ role \in {"system", "user", "assistant"}

\* `if not message.get('content')`
ContentOk(content) == Truthy(content)

\* the body of the loop of chat for one message: the exception it raises, and
\* the message as it is left in the caller's list
CheckMessage(m) ==
  IF ~m.isdict
  THEN [exc |-> Exc("TypeError", "messages must be a list of strings"), m |-> m]
  ELSE IF ~RoleOk(m.role)
  THEN [exc |-> Exc("Exception", "messages must contain a role and it must be one of \"system\", \"user\", or \"assistant\""),
        m |-> m]
  ELSE IF ~ContentOk(m.content)
  THEN [exc |-> Exc("Exception", "messages must contain content"), m |-> m]
  ELSE IF m.images # <<>>
  THEN LET e == EncodeAll(m.images) IN
       [exc |-> e.exc, m |-> IF e.exc = NoExc THEN [m EXCEPT !.images = e.v] ELSE m]
  ELSE [exc |-> NoExc, m |-> m]

\* `for message in messages or []` from message i on: the loop stops at the
\* first exception, the messages before it already rewritten
RECURSIVE ChatLoop(_, _)
ChatLoop(msgs, i) ==
  IF i > Len(msgs) THEN [exc |-> NoExc, msgs |-> msgs]
  ELSE LET c == CheckMessage(msgs[i]) IN
       IF c.exc # NoExc THEN [exc |-> c.exc, msgs |-> [msgs EXCEPT ![i] = c.m]]
       ELSE ChatLoop([msgs EXCEPT ![i] = c.m], i + 1)

\* `if not model: raise Exception('must provide a model')`
ModelOk(model) == model # ""

NoReq == [url |-> "", model |-> "", messages |-> <<>>, images |-> <<>>, stream |-> FALSE]

\* the messages callers put in a list: well-formed ones with any images, and
\* ones with one thing wrong
MessageValues ==
  [isdict : {TRUE}, role : {"user"}, content : {"hi"},
     images : {<<>>, <<Bytes("B1")>>, <<Str("cat.png")>>, <<Other("42")>>}]
  \cup [isdict : {TRUE}, role : {"system", "assistant"}, content : {"hi"},
          images : {<<>>}]
  \cup [isdict : {TRUE}, role : {None, "", "tool"}, content : {"hi"},
          images : {<<Bytes("B1")>>}]
  \cup [isdict : {TRUE}, role : {"user"}, content : {None, ""},
          images : {<<Bytes("B1")>>}]
  \cup [isdict : {FALSE}, role : {None}, content : {None}, images : {<<>>}]

Models == {"", "llama2"}

\* chat(model, messages, stream) on the caller's list. The request of a
\* buffered call is sent in the call; a streamed call returns the generator,
\* whose request holds the list itself and is sent when iteration starts.
chat(model, stream) ==
  /\ ncalls < MaxCalls
  /\ ncalls' = ncalls + 1
  /\ last' = [op |-> "chat", model |-> model, stream |-> stream]
  /\ IF ~ModelOk(model)
     THEN /\ chatExc' = Exc("Exception", "must provide a model")
          /\ UNCHANGED <<messages, sent, nsent, lazy>>
     ELSE LET c == ChatLoop(messages, 1) IN
          /\ messages' = c.msgs
          /\ chatExc' = c.exc
          /\ IF c.exc # NoExc
             THEN UNCHANGED <<sent, nsent, lazy>>
             ELSE IF stream
             THEN /\ lazy' = Append(lazy, [url |-> "/api/chat", model |-> model,
                                            byRef |-> TRUE, images |-> <<>>])
                  /\ UNCHANGED <<sent, nsent>>
             ELSE /\ sent' = [url |-> "/api/chat", model |-> model, messages |-> c.msgs,
                              images |-> <<>>, stream |-> FALSE]
                  /\ nsent' = nsent + 1
                  /\ UNCHANGED lazy
  /\ UNCHANGED <<streamVars, createVars>>

\* generate(model, images=..., stream): the images are encoded into a new
\* list for the request
generate(model, images, stream) ==
  /\ ncalls < MaxCalls
  /\ ncalls' = ncalls + 1
  /\ last' = [op |-> "generate", model |-> model, stream |-> stream]
  /\ IF ~ModelOk(model)
     THEN /\ chatExc' = Exc("Exception", "must provide a model")
          /\ UNCHANGED <<sent, nsent, lazy>>
     ELSE LET e == EncodeAll(images) IN
          /\ chatExc' = e.exc
          /\ IF e.exc # NoExc
             THEN UNCHANGED <<sent, nsent, lazy>>
             ELSE IF stream
             THEN /\ lazy' = Append(lazy, [url |-> "/api/generate", model |-> model,
                                            byRef |-> FALSE, images |-> e.v])
                  /\ UNCHANGED <<sent, nsent>>
             ELSE /\ sent' = [url |-> "/api/generate", model |-> model, messages |-> <<>>,
                              images |-> e.v, stream |-> FALSE]
                  /\ nsent' = nsent + 1
                  /\ UNCHANGED lazy
  /\ UNCHANGED messages
  /\ UNCHANGED <<streamVars, createVars>>

\* the caller starts iterating the oldest generator not yet started: its
\* request is sent
iterate ==
  /\ lazy # <<>>
  /\ LET g == Head(lazy) IN
     sent' = [url |-> g.url, model |-> g.model,
              messages |-> IF g.byRef THEN messages ELSE <<>>,
              images |-> g.images, stream |-> TRUE]
  /\ nsent' = nsent + 1
  /\ lazy' = Tail(lazy)
  /\ UNCHANGED <<messages, ncalls, last, chatExc>>
  /\ UNCHANGED <<streamVars, createVars>>

ChatIdle ==
  /\ messages = <<>>
  /\ sent = NoReq /\ nsent = 0 /\ lazy = <<>>
  /\ ncalls = 0
  /\ last = [op |-> "", model |-> "", stream |-> FALSE]
  /\ chatExc = NoExc

CreateIdle ==
  /\ net = <<>>
  /\ pc = [t \in Tasks |-> "idle"]
  /\ call = [t \in Tasks |-> NoCall]
  /\ rest = [t \in Tasks |-> <<>>]
  /\ out = [t \in Tasks |-> <<>>]
  /\ blob = [t \in Tasks |-> NoBlob]
  /\ exc = [t \in Tasks |-> NoExc]

InitStream ==
  /\ StreamIdle
  /\ client = "Client" /\ blobs = {} /\ CreateIdle
  /\ ChatIdle

\* one create call on the blocking client, the server holding any blobs
InitCreate ==
  /\ StreamIdle
  /\ client = "Client" /\ blobs \in SUBSET Digests /\ CreateIdle
  /\ ChatIdle

\* concurrent create calls on the non-blocking client
InitAsync ==
  /\ StreamIdle
  /\ client = "AsyncClient" /\ blobs \in SUBSET Digests /\ CreateIdle
  /\ ChatIdle

NextCreate ==
  \E t \in Tasks :
    \/ /\ t \in Callers /\ pc[t] = "idle"
       /\ \E viaPath \in BOOLEAN, text \in Texts, stream \in BOOLEAN :
            create(t, viaPath, text, stream)
    \/ _parse_modelfile(t)
    \/ create_blob_probed(t)
    \/ create_blob_uploaded(t)
    \/ create_dispatch(t)
    \/ create_iterate(t)
    \/ create_answered(t)

SpecCreate == InitCreate /\ [][NextCreate]_vars

SpecAsync == InitAsync /\ [][NextCreate]_vars

\* the caller holds a list of up to MaxMsgs messages
InitChat ==
  /\ StreamIdle
  /\ client = "Client" /\ blobs = {} /\ CreateIdle
  /\ messages \in UNION {[1..n -> MessageValues] : n \in 0..MaxMsgs}
  /\ sent = NoReq /\ nsent = 0 /\ lazy = <<>>
  /\ ncalls = 0
  /\ last = [op |-> "", model |-> "", stream |-> FALSE]
  /\ chatExc = NoExc

NextChat ==
  \/ \E model \in Models, stream \in BOOLEAN : chat(model, stream)
  \/ \E model \in Models, stream \in BOOLEAN,
        images \in {<<>>, <<Bytes("B1")>>, <<Str("cat.png"), Other("42")>>} :
       generate(model, images, stream)
  \/ iterate

SpecChat == InitChat /\ [][NextChat]_vars

NextStream ==
  \/ \E stream \in BOOLEAN : _request_stream(stream)
  \/ StreamNext
  \/ StreamNextAfterEnd
  \/ StreamClose

SpecStream == InitStream /\ [][NextStream]_vars

(***************************************************************************)
(* Claims about the stream decoder and the transport wrapper               *)
(***************************************************************************)
Min(S) == CHOOSE x \in S : \A y \in S : x <= y

\* what a line is on the wire, read off its text
IsObject(line) == line \notin {LineNotJson, LineJsonList}

CarriesError(line) == line \in {LineErrX, LineErrY}

ErrorMessage(line) == IF line = LineErrX THEN "x" ELSE "y"

\* the sequence ran to its own end (the consumer did not close it)
RanToEnd == gen = "done" /\ resp # NoResp /\ raised.type # "GeneratorExit"

\* index of the first line the decoder cannot pass on: an error line, or a
\* line that is no JSON object; 0 if there is none
FirstStop(body) ==
  LET stops == {i \in 1..Len(body) : ~IsObject(body[i]) \/ CarriesError(body[i])}
  IN IF stops = {} THEN 0 ELSE Min(stops)

FirstError(body) ==
  LET errs == {i \in 1..Len(body) : CarriesError(body[i])}
  IN IF errs = {} THEN 0 ELSE Min(errs)

InOrder ==
  /\ Len(yielded) <= Len(resp.body)
  /\ \A i \in 1..Len(yielded) : yielded[i] = json_loads(resp.body[i]).v

\* C1 as stated: over every body of n lines, the messages come in input
\* order; with no line carrying a non-empty error field all n are yielded;
\* with the first such line at k, exactly the k-1 before it are yielded, the
\* sequence fails with that message and no line after k is read.
C1_Original ==
  LET body == resp.body
      k == FirstError(body)
  IN /\ InOrder
     /\ (k # 0 => nread <= k)
     /\ (RanToEnd =>
           IF k = 0
           THEN Len(yielded) = Len(body)
           ELSE /\ Len(yielded) = k - 1
                /\ nread = k
                /\ raised = Exc("Exception", ErrorMessage(body[k])))

\* C1 amended: the same, where the first line that carries a non-empty error
\* field or is no JSON object takes the place of the first error line: the
\* messages before it are yielded in order, then the sequence fails (with the
\* embedded message for an error line, with the decoder's own error for a
\* line that is no JSON object) and no later line is read; a body of n JSON
\* objects with no non-empty error field yields all n.
C1_StreamOrder ==
  LET body == resp.body
      k == FirstStop(body)
  IN /\ InOrder
     /\ (k # 0 => nread <= k)
     /\ (RanToEnd =>
           IF k = 0
           THEN Len(yielded) = Len(body) /\ raised.type = "StopIteration"
           ELSE /\ Len(yielded) = k - 1
                /\ nread = k
                /\ IF IsObject(body[k])
                   THEN raised = Exc("Exception", ErrorMessage(body[k]))
                   ELSE raised.type \in {"JSONDecodeError", "AttributeError"})

\* a 3-line body whose 3rd line is an error line, after a line with an empty
\* error field: 2 messages were yielded and the sequence failed with "x"
C1_Witness ==
  /\ gen = "done"
  /\ Len(resp.body) = 3
  /\ resp.body[2] = LineErrEmpty
  /\ resp.body[3] = LineErrX
  /\ Len(yielded) = 2
  /\ raised = Exc("Exception", "x")

\* C7: a connection the stream decoder opened is released on every way out of
\* the sequence (exhaustion, the consumer closing it, a failure on a line),
\* and a sequence that has ended stays ended and yields nothing more.
C7_Released ==
  [][ /\ (gen # "done" /\ gen' = "done" =>
            /\ conn' # "open"
            /\ (conn = "open" => conn' = "released")
            /\ (resp' # NoResp => conn' = "released"))
      /\ (gen = "suspended" => conn = "open")
      /\ (gen = "done" => gen' = "done" /\ yielded' = yielded /\ conn' = conn)
    ]_vars

\* the consumer closed the sequence with lines still unread: released
C7_Witness ==
  /\ gen = "done"
  /\ raised.type = "GeneratorExit"
  /\ Len(yielded) >= 1
  /\ nread < Len(resp.body)
  /\ conn = "released"

\* C8: every non-2xx status the server returns, to a buffered or a streamed
\* request, reaches the caller as an HTTP error carrying the status, and no
\* line of such a response is yielded as a message.
C8_NonSuccessSurfaced ==
  (resp # NoResp /\ ~Is2xx(resp.status)) =>
     /\ yielded = <<>>
     /\ raised = HTTPStatusError(resp.status)

(***************************************************************************)
(* Claims about create, the Modelfile parser and the blob uploader         *)
(***************************************************************************)
\* the requests caller t issued, in order
TaskLog(t) == SelectSeq(net, LAMBDA r : r.task = t)

\* the requests of caller t's _create_blob call for line l of its Modelfile
BlobLog(t, l) == SelectSeq(net, LAMBDA r : r.task = t /\ r.line = l)

Tokens(s) == {s[i] : i \in 1..Len(s)}

Failed(r) == r.status # 0 /\ ~Is2xx(r.status)

\* the failure a caller sees for an answer: an HTTP error with the status,
\* or the transport's own error when there was no answer
FailureOf(status) ==
  IF status = -1 THEN Exc("ConnectError", "") ELSE HTTPStatusError(status)

\* C2: in one call of the blob uploader the probe (HEAD) comes first and
\* decides the uploads (PUT) on the same digest: probe 2xx, none, and the
\* digest is returned; probe 404, exactly one, and the digest is returned when
\* it succeeds; any other probe failure, none, and the failure reaches the
\* caller as it is.
C2_ProbeDecidesUpload ==
  \A t \in Tasks : \A l \in 1..Len(SplitLines(call[t].modelfile)) :
    LET rs == BlobLog(t, l)
        puts == Cardinality({i \in 1..Len(rs) : rs[i].method = "PUT"})
        returnedDigest == ("@" \o rs[1].target) \in Tokens(out[t])
    IN rs # <<>> =>
       /\ rs[1].method = "HEAD"
       /\ \A i \in 1..Len(rs) : rs[i].target = rs[1].target
       /\ CASE rs[1].status = 0     -> puts = 0 /\ pc[t] = "head"
            [] Is2xx(rs[1].status)  -> puts = 0 /\ returnedDigest
            [] rs[1].status = 404   ->
                 /\ puts = 1 /\ Len(rs) = 2
                 /\ (rs[2].status = 0 => pc[t] = "put")
                 /\ (Is2xx(rs[2].status) => returnedDigest)
                 /\ (Failed(rs[2]) =>
                       pc[t] = "failed" /\ exc[t] = FailureOf(rs[2].status))
            [] OTHER                ->
                 /\ puts = 0
                 /\ pc[t] = "failed"
                 /\ exc[t] = FailureOf(rs[1].status)

\* a probe answered 404, one upload that succeeded, the digest in the output
C2_Witness ==
  \E t \in Tasks :
    LET rs == BlobLog(t, 1)
    IN /\ Len(rs) = 2
       /\ rs[1].status = 404
       /\ rs[2].method = "PUT" /\ rs[2].status = 201
       /\ ("@" \o rs[1].target) \in Tokens(out[t])
       /\ pc[t] = "done"

\* C3: over any interleaving of create calls, against a server that reports a
\* digest as present once an upload of it has succeeded, no digest is
\* uploaded more than once (uploads the server refused, which the caller has
\* to repeat, are not counted).
C3_UploadedAtMostOnce ==
  \A d \in Digests :
    Cardinality({i \in 1..Len(net) :
                   /\ net[i].method = "PUT"
                   /\ net[i].target = d
                   /\ ~Failed(net[i])}) <= 1

\* a line without its final newline
StripNL(line) ==
  IF line # <<>> /\ line[Len(line)] = NL THEN SubSeq(line, 1, Len(line) - 1) ELSE line

\* the lines of a text as a reader of the Modelfile sees them
TextLines(text) ==
  LET ls == SplitLines(text) IN [i \in 1..Len(ls) |-> StripNL(ls[i])]

\* _parse_modelfile has returned its text
Parsed(t) == pc[t] \in {"lazy", "post", "done"}

\* C5: the parser writes exactly one output line per input line, in order, and
\* every line whose command is not FROM or ADAPTER comes out verbatim.
C5_LineForLine ==
  \A t \in Tasks :
    Parsed(t) =>
      LET inL == TextLines(call[t].modelfile)
          outL == TextLines(out[t])
      IN /\ Len(outL) = Len(inL)
         /\ \A i \in 1..Len(inL) :
              ~IsDirective(partition(inL[i]).command) => outL[i] = inL[i]

\* C6: every FROM / ADAPTER line, wherever it stands, whose argument names a
\* file that exists has the blob uploader called once for it and comes out as
\* `<COMMAND> @<digest of the file>`; one whose argument names no local path
\* has no uploader call and comes out unchanged.
C6_DirectiveRewritten ==
  \A t \in Tasks :
    Parsed(t) =>
      LET inL == TextLines(call[t].modelfile)
          outL == TextLines(out[t])
          probes(i) == SelectSeq(BlobLog(t, i), LAMBDA r : r.method = "HEAD")
      IN \A i \in 1..Len(inL) :
           LET p == partition(inL[i]) IN
           IsDirective(p.command) =>
             IF IsFile(p.args)
             THEN /\ Len(probes(i)) = 1
                  /\ \E j \in 1..Len(outL) :
                       outL[j] = p.command \o <<SP, "@" \o DigestOf(p.args)>>
             ELSE /\ Len(probes(i)) = 0
                  /\ \E j \in 1..Len(outL) : outL[j] = inL[i]

\* the digests _create_blob is called for by a Modelfile, in line order; a
\* directive naming a directory stands as "dir"
RECURSIVE BlobCalls(_)
BlobCalls(ls) ==
  IF ls = <<>> THEN <<>>
  ELSE LET p == partition(Head(ls)) IN
       (IF IsDirective(p.command) /\ PathExists(p.args)
        THEN <<IF IsDir(p.args) THEN "dir" ELSE DigestOf(p.args)>>
        ELSE <<>>) \o BlobCalls(Tail(ls))

\* How a log of blob requests stands against the digests ds due in order:
\* "complete", every digest probed and, where absent, uploaded, each with
\* success; "partial", so far so, the last request in flight or failed;
\* "bad", anything else (a request out of order, repeated, or after a failure).
RECURSIVE Run(_, _)
Run(L, ds) ==
  IF L = <<>> THEN (IF ds = <<>> THEN "complete" ELSE "partial")
  ELSE IF ds = <<>> \/ L[1].method # "HEAD" \/ L[1].target # ds[1] THEN "bad"
  ELSE IF Is2xx(L[1].status) THEN Run(Tail(L), Tail(ds))
  ELSE IF L[1].status = 404
  THEN IF Len(L) < 2 \/ L[2].method # "PUT" \/ L[2].target # ds[1] THEN "bad"
       ELSE IF Is2xx(L[2].status) THEN Run(SubSeq(L, 3, Len(L)), Tail(ds))
       ELSE IF Len(L) = 2 THEN "partial" ELSE "bad"
  ELSE IF Len(L) = 1 THEN "partial" ELSE "bad"

\* C9: /api/create is requested only after the probe, and the upload where
\* needed, of every rewritten directive has succeeded, in directive order; a
\* probe or upload that fails is the call's last request (nothing is retried,
\* no later directive is processed, /api/create is not requested) and its
\* failure is what the caller gets.
C9_CreateAfterBlobs ==
  \A t \in Tasks :
    LET L == TaskLog(t)
        ds == BlobCalls(SplitLines(call[t].modelfile))
        posts == {i \in 1..Len(L) : L[i].method = "POST"}
    IN /\ IF posts = {}
          THEN Run(L, ds) # "bad"
          ELSE /\ posts = {Len(L)}
               /\ Run(SubSeq(L, 1, Len(L) - 1), ds) = "complete"
       /\ \A i \in 1..Len(L) :
            (L[i].method # "POST" /\ Failed(L[i]) /\ L[i].status # 404) =>
               /\ i = Len(L)
               /\ pc[t] = "failed"
               /\ exc[t] = FailureOf(L[i].status)

\* /api/create requested after two directives were rewritten, one of them
\* uploaded
C9_Witness ==
  \E t \in Tasks :
    LET L == TaskLog(t)
    IN /\ Len(L) >= 4
       /\ L[Len(L)].method = "POST"
       /\ \E i \in 1..Len(L) : L[i].method = "PUT"
       /\ Cardinality({i \in 1..Len(L) : L[i].method = "HEAD"}) = 2

(***************************************************************************)
(* Claims about generate and chat                                          *)
(***************************************************************************)
\* a message with a recognized role and non-empty content
Recognized(m) ==
  /\ m.isdict
  /\ m.role \in {"system", "user", "assistant"}
  /\ m.content \notin {None, ""}

\* C4: a generate or chat call with an empty model name, or a chat call whose
\* list holds a message without a recognized role or with empty content,
\* fails and sends nothing, now or later (it returns no generator either); so
\* every /api/chat request sent carries only messages with a recognized role
\* and non-empty content. Streamed and buffered calls alike.
C4_ValidationFirst ==
  [][ /\ ( /\ ncalls' = ncalls + 1
           /\ \/ last'.model = ""
              \/ /\ last'.op = "chat"
                 /\ \E i \in 1..Len(messages) : ~Recognized(messages[i]) )
         => /\ chatExc' # NoExc
            /\ nsent' = nsent /\ sent' = sent
            /\ lazy' = lazy
      /\ nsent' = nsent + 1
         => /\ sent'.model # ""
            /\ \A i \in 1..Len(sent'.messages) : Recognized(sent'.messages[i])
    ]_vars

\* a streamed chat call on a list whose second message has the role "tool":
\* it raised, nothing was sent and no generator was returned
C4_Witness ==
  /\ ncalls = 1
  /\ last = [op |-> "chat", model |-> "llama2", stream |-> TRUE]
  /\ Len(messages) = 2
  /\ Recognized(messages[1])
  /\ messages[2].role = "tool"
  /\ chatExc.type = "Exception"
  /\ nsent = 0
  /\ lazy = <<>>

\* C10: a chat call, whether it returns or raises, leaves every field of
\* every message of the caller's list as it was.
C10_MessagesUnchanged == [][messages' = messages]_vars

====
